---------------------------- MODULE Spec2Model ----------------------------
(***************************************************************************)
(* Session & streaming protocol layer of the SAP DM agent chat front end.  *)
(*                                                                         *)
(* Two Streamlit applications share one orchestrator (main): app_local.py  *)
(* talks HTTP/SSE to a local REST agent, app_agentEngine.py calls the      *)
(* Vertex AI Agent Engine SDK.  One run of main() from top to bottom (or   *)
(* to the st.rerun()/st.stop() that cuts it short) is one "pass"; the      *)
(* st.session_state fields survive between passes.  The backend is the     *)
(* environment: every response is drawn from a bounded set.                *)
(*                                                                         *)
(* Specifications: Spec (the orchestrator against any backend), SpecTrip   *)
(* (against a backend that records the turns), SpecSSE and SpecCancel (the *)
(* SSE reader stepped line by line, without and with a consumer that stops *)
(* early), SpecFn (one call of a helper function).                         *)
(***************************************************************************)
EXTENDS Integers, Sequences, FiniteSets, TLC

VARIABLES
    app,               \* "local" (app_local.py) or "engine" (app_agentEngine.py)
    session_id,        \* st.session_state.session_id
    sessions,          \* st.session_state.sessions
    refresh_sessions,  \* st.session_state.refresh_sessions
    user_name,         \* st.session_state.user_name
    rerun,             \* a script run is queued with no widget input (first run, st.rerun())
    widgets,           \* what the last pass rendered, i.e. what the user can act on
    pass,              \* record of the last pass: input, backend calls, UI messages
    gen,               \* the agent_run_sse generator stepped on its own (SpecSSE)
    calc,              \* one call of a helper function: its input, then its result (SpecFn)
    backend,           \* the sessions a recording backend holds (SpecTrip)
    trail              \* what the user has done so far, in order (SpecTrip)

vars == <<app, session_id, sessions, refresh_sessions, user_name, rerun, widgets, pass, gen,
          calc, backend, trail>>

-----------------------------------------------------------------------------
(* Bounds of the model *)

\* longest session list a backend response carries
MaxSessions == 2
\* longest line sequence of a stream handed to the stepped SSE reader
MaxLines == 3
\* longest event log handed to the history display on its own
MaxEvents == 2
\* number of things the user does in a session with the recording backend
MaxTrail == 3

-----------------------------------------------------------------------------
(* JSON / Python values.  None and JSON null are the same Python object. *)

None == [t |-> "null"]
JStr(s) == [t |-> "str", v |-> s]
JNum(n) == [t |-> "num", n |-> n]
JObj(f) == [t |-> "obj", f |-> f]
JList(q) == [t |-> "list", q |-> q]

EmptyObj == JObj(<<>>)
EmptyList == JList(<<>>)

IsDict(v) == v.t = "obj"
IsList(v) == v.t = "list"
IsStr(v) == v.t = "str"

\* Python truth value (`if x:`)
Truthy(v) ==
    CASE v.t = "null" -> FALSE
      [] v.t = "str" -> v.v # ""
      [] v.t = "num" -> v.n # 0
      [] v.t = "obj" -> DOMAIN v.f # {}
      [] v.t = "list" -> Len(v.q) > 0

HasKey(d, k) == k \in DOMAIN d.f

\* dict.get(k, default)
Get(d, k, default) == IF k \in DOMAIN d.f THEN d.f[k] ELSE default

\* x or y
PyOr(x, y) == IF Truthy(x) THEN x ELSE y

-----------------------------------------------------------------------------
(* Identifiers, users and texts of the bounded environment *)

Ids == {"s1", "s2"}
Users == {"test_user", "other_user"}
Texts == {"hello"}

\* a session entry as the backend lists it
SessionEntry(i) == JObj([k \in {"id"} |-> JStr(i)])
\* an entry the backend lists without an id
NoIdEntry == EmptyObj

RECURSIVE SeqsUpTo(_, _)
SeqsUpTo(S, n) ==
    IF n = 0 THEN {<<>>}
    ELSE LET shorter == SeqsUpTo(S, n - 1)
         IN shorter \cup {Append(q, x) : q \in {p \in shorter : Len(p) = n - 1}, x \in S}

\* text of an index, for f'session_{i}' (enumerate counts from 0)
IndexText(i) == CASE i = 0 -> "0" [] i = 1 -> "1" [] i = 2 -> "2" [] i = 3 -> "3" [] OTHER -> "n"
SynthId(i) == JStr("session_" \o IndexText(i))

\* the sessions the backend may hold, in the order it lists them
Catalogue == <<SessionEntry("s1"), NoIdEntry, SessionEntry("s2")>>

\* the elements of q at the positions in P, in order
RECURSIVE Pick(_, _, _)
Pick(q, P, i) ==
    IF i > Len(q) THEN <<>>
    ELSE (IF i \in P THEN <<q[i]>> ELSE <<>>) \o Pick(q, P, i + 1)

\* the session lists a response may carry: those of at most MaxSessions
\* sessions of the catalogue
SessionLists ==
    {Pick(Catalogue, P, 1) : P \in {Q \in SUBSET (1..Len(Catalogue)) : Cardinality(Q) <= MaxSessions}}

-----------------------------------------------------------------------------
(* HTTP responses of the local REST backend (requests.Response).           *)
(* net = FALSE: requests raised a RequestException before any response     *)
(* (connection refused, timeout).  body.kind: "empty" (no content),        *)
(* "blank" (whitespace only), "text" (not JSON), "json" (val is the value  *)
(* response.json() returns).                                               *)

Body(kind, val) == [kind |-> kind, val |-> val]
EmptyBody == Body("empty", None)
BlankBody == Body("blank", None)
TextBody == Body("text", None)
JsonBody(v) == Body("json", v)

Http(status, body) == [net |-> TRUE, status |-> status, body |-> body]
NetError == [net |-> FALSE, status |-> 0, body |-> EmptyBody]
NoResponse == [net |-> FALSE, status |-> -1, body |-> EmptyBody]

\* response.raise_for_status(): HTTPError for a 4xx or 5xx status
RaisesForStatus(resp) == resp.status >= 400 /\ resp.status < 600

\* response.ok: raise_for_status() does not raise
ResponseOk(resp) == ~RaisesForStatus(resp)

\* the result of an adapter operation: the value returned and the UI messages emitted
Result(ret, msgs) == [ret |-> ret, msgs |-> msgs]

\* _parse_json_or_empty(response, on_empty)
parse_json_or_empty(response, on_empty) ==
    LET dflt == IF on_empty = None THEN EmptyList ELSE on_empty
    IN IF response.status = 204 \/ response.body.kind = "empty"
            \/ response.body.kind = "blank"
       THEN Result(dflt, <<>>)
       ELSE IF response.body.kind = "json"
       THEN Result(response.body.val, <<>>)
       ELSE Result(dflt, <<"error: non-JSON response">>)

\* list_sessions(app_name, user_id), given the backend's response
list_sessions(resp) ==
    IF ~resp.net \/ RaisesForStatus(resp)
    THEN Result(EmptyList, <<"error: listing sessions">>)
    ELSE LET p == parse_json_or_empty(resp, EmptyList)
             data == p.ret
         IN IF IsDict(data) /\ HasKey(data, "sessions")
            THEN Result(PyOr(data.f["sessions"], EmptyList), p.msgs)
            ELSE Result(IF IsList(data) THEN data ELSE EmptyList, p.msgs)

\* get_session(app_name, user_id, session_id), given the backend's response
get_session(resp) ==
    IF ~resp.net \/ RaisesForStatus(resp)
    THEN Result(None, <<"error: getting session">>)
    ELSE LET p == parse_json_or_empty(resp, None)
             data == p.ret
         IN Result(IF IsDict(data) THEN data ELSE None, p.msgs)

\* the status codes delete_session returns True for at once
DeleteSuccessCodes == {200, 202, 204}

\* delete_session(app_name, user_id, session_id): ret is a bool
delete_session(resp) ==
    IF ~resp.net
    THEN [ret |-> FALSE, msgs |-> <<"error: deleting session">>]
    ELSE IF resp.status \in DeleteSuccessCodes
    THEN [ret |-> TRUE, msgs |-> <<>>]
    ELSE LET p == parse_json_or_empty(resp, None)
         IN [ret |-> ResponseOk(resp), msgs |-> p.msgs]

\* create_session(app_name, user_id), given the backend's response
create_session(resp) ==
    IF ~resp.net \/ RaisesForStatus(resp)
    THEN Result(None, <<"error: creating session">>)
    ELSE LET p == parse_json_or_empty(resp, None)
             data == p.ret
         IN IF IsDict(data)
            THEN Result(Get(data, "id", None), p.msgs)
            ELSE IF IsDict(data) /\ HasKey(data, "session") /\ IsDict(data.f["session"])
            THEN Result(Get(data.f["session"], "id", None), p.msgs)
            ELSE IF IsList(data) /\ Truthy(data) /\ IsDict(data.q[1]) /\ HasKey(data.q[1], "id")
            THEN Result(data.q[1].f["id"], p.msgs)
            ELSE Result(None, p.msgs \o <<"warning: no id in creation response">>)

-----------------------------------------------------------------------------
(* Results of the Agent Engine SDK calls (app_agentEngine.py).             *)
(* raised = TRUE: the SDK call raised an exception; val is what it returned*)

Sdk(val) == [raised |-> FALSE, val |-> val]
SdkRaised == [raised |-> TRUE, val |-> None]

\* create_new_session(resource_id, user_id)
create_new_session(r) ==
    IF r.raised
    THEN Result(None, <<"error: creating session">>)
    ELSE IF IsStr(r.val) THEN Result(r.val, <<>>)
    ELSE IF IsDict(r.val) THEN Result(Get(r.val, "id", None), <<>>)
    ELSE Result(None, <<>>)

\* get_sessions_list(resource_id, user_id)
get_sessions_list(r) ==
    IF r.raised
    THEN Result(EmptyList, <<"error: listing sessions">>)
    ELSE IF IsDict(r.val) /\ HasKey(r.val, "sessions")
    THEN Result(r.val.f["sessions"], <<>>)
    ELSE IF IsList(r.val) THEN Result(r.val, <<>>)
    ELSE Result(EmptyList, <<>>)

\* get_session_details(resource_id, user_id, session_id)
get_session_details(r) ==
    IF r.raised
    THEN Result(None, <<"error: getting session">>)
    ELSE Result(IF IsDict(r.val) THEN r.val ELSE None, <<>>)

\* delete_session_by_id(resource_id, user_id, session_id): ret is a bool
delete_session_by_id(r) ==
    IF r.raised
    THEN [ret |-> FALSE, msgs |-> <<"error: deleting session">>]
    ELSE [ret |-> TRUE, msgs |-> <<>>]

-----------------------------------------------------------------------------
(* Events and the SSE stream of POST /run_sse.                              *)
(* A received line is UTF-8 text, modelled as a sequence of tokens: the    *)
(* field prefix first, then the rest of the line.  A JSON document is one  *)
(* token; JsonDoc gives the value json.loads returns for it.               *)

TextPart(txt) == JObj([k \in {"text"} |-> JStr(txt)])
TextEvent(txt) ==
    JObj([k \in {"content"} |-> JObj([j \in {"parts"} |-> JList(<<TextPart(txt)>>)])])

\* a key that a JSON object may lack
Absent == [t |-> "absent"]
Opt(k, v) == IF v = Absent THEN <<>> ELSE (k :> v)

NullTextPart == JObj([k \in {"text"} |-> None])
NoTextPart == JObj([k \in {"functionCall"} |-> EmptyObj])

\* an event of a session's log
Event(author, role, parts) ==
    JObj(Opt("author", author)
         @@ ("content" :> JObj(Opt("role", role) @@ ("parts" :> JList(parts)))))

\* the turns as the agent service records and streams them
UserTurn(txt) == Event(JStr("user"), JStr("user"), <<TextPart(txt)>>)
AgentTurn(txt) == Event(JStr("agent"), JStr("model"), <<TextPart(txt)>>)

\* what the agent of the recording backend answers
Replies == {"hi there", "ok"}

DocA == "{\"content\":{\"parts\":[{\"text\":\"A\"}]}}"
DocB == "{\"content\":{\"parts\":[{\"text\":\"B\"}]}}"
DocEmptyText == "{\"content\":{\"parts\":[{\"text\":\"\"}]}}"
DocNumber == "5"
ReplyDoc(txt) ==
    "{\"author\":\"agent\",\"content\":{\"role\":\"model\",\"parts\":[{\"text\":\""
    \o txt \o "\"}]}}"

\* the JSON documents of the bounded environment and their values
JsonDoc ==
    (DocA :> TextEvent("A")) @@ (DocB :> TextEvent("B"))
    @@ (DocEmptyText :> TextEvent("")) @@ (DocNumber :> JNum(5))
    @@ [d \in {ReplyDoc(t) : t \in Replies} |->
           AgentTurn(CHOOSE t \in Replies : ReplyDoc(t) = d)]

DataPrefix == "data: "

Lines ==
    { <<>>,                          \* blank separator
      <<": keep-alive">>,            \* comment
      <<"event: message">>,          \* another field
      <<"data:", DocA>>,             \* data field without the space
      <<DataPrefix>>,                \* data field with nothing after it
      <<DataPrefix, "not-json">>,
      <<DataPrefix, DocA>>,
      <<DataPrefix, DocB>> }

\* decoded_line.startswith("data: ")
StartsWithData(line) == Len(line) >= 1 /\ line[1] = DataPrefix

\* json.loads(decoded_line[len("data: "):]): ok = FALSE for json.JSONDecodeError
json_loads(rest) ==
    IF Len(rest) = 1 /\ rest[1] \in DOMAIN JsonDoc
    THEN [ok |-> TRUE, val |-> JsonDoc[rest[1]]]
    ELSE [ok |-> FALSE, val |-> None]

\* A stream as the transport delivers it: how the POST ends, the complete
\* lines received, the unterminated text received after the last line break
\* (a sequence of at most one line), and how the connection ends.
Stream(post, lines, partial, end) ==
    [post |-> post, lines |-> lines, partial |-> partial, end |-> end]

\* response.iter_lines(): the complete lines; text pending at a clean end of
\* the body is handed out as a last line, text pending when the read raises
\* is lost with the exception.
iter_lines(stm) ==
    IF stm.end = "close" THEN stm.lines \o stm.partial ELSE stm.lines

\* The generator agent_run_sse(...) returns.
\*   at: "start" (created, body not entered), "lines" (suspended in the loop
\*       over iter_lines), "done" (returned)
\*   conn: "none" | "open" | "closed" (the response of the with statement)
\*   todo: lines iter_lines has still to hand out
\*   end: how the request or the body ends: "neterr", "httperr", "close", "interrupt"
\*   out: events yielded so far; warnings, errors: st.warning / st.error calls
\*   raised: an exception left the generator
\*   stm: the stream it was started on (kept for reference only)
GenState(at, conn, todo, end, out, warnings, errors, raised, stm) ==
    [at |-> at, conn |-> conn, todo |-> todo, end |-> end, out |-> out,
     warnings |-> warnings, errors |-> errors, raised |-> raised, stm |-> stm]

agent_run_sse(stm) ==
    GenState("start", "none", iter_lines(stm), IF stm.post = "ok" THEN stm.end ELSE stm.post,
             <<>>, 0, 0, FALSE, stm)

\* requests.post(...) and response.raise_for_status(), lines 168-169
sse_post(g) ==
    IF g.end = "neterr"
    THEN [g EXCEPT !.at = "done", !.errors = @ + 1]
    ELSE IF g.end = "httperr"
    THEN [g EXCEPT !.at = "done", !.conn = "closed", !.errors = @ + 1]
    ELSE [g EXCEPT !.at = "lines", !.conn = "open"]

\* the mutant of sse_line: the first undecodable frame ends the stream
sse_line_stops(g) ==
    LET line == Head(g.todo)
        rest == [g EXCEPT !.todo = Tail(@)]
    IN IF Len(line) > 0 /\ StartsWithData(line)
       THEN LET d == json_loads(Tail(line))
            IN IF d.ok
               THEN [rest EXCEPT !.out = Append(@, d.val)]
               ELSE [rest EXCEPT !.warnings = @ + 1, !.at = "done", !.conn = "closed"]
       ELSE rest

\* one turn of `for line in response.iter_lines()`, lines 170-178
sse_line(g) ==
    LET line == Head(g.todo)
        rest == [g EXCEPT !.todo = Tail(@)]
    IN IF Len(line) > 0 /\ StartsWithData(line)
       THEN LET d == json_loads(Tail(line))
            IN IF d.ok
               THEN [rest EXCEPT !.out = Append(@, d.val)]
               ELSE [rest EXCEPT !.warnings = @ + 1]
       ELSE rest

\* the mutant of sse_end: a broken connection is taken for the end of the body
sse_end_silent(g) == [g EXCEPT !.at = "done", !.conn = "closed"]

\* iter_lines is exhausted or raises: the with statement closes the response,
\* a RequestException is caught and reported, lines 179-181
sse_end(g) ==
    IF g.end = "interrupt"
    THEN [g EXCEPT !.at = "done", !.conn = "closed", !.errors = @ + 1]
    ELSE [g EXCEPT !.at = "done", !.conn = "closed"]

\* the number of lines the loop has taken from iter_lines
taken(g) == Len(iter_lines(g.stm)) - Len(g.todo)

\* the generator is suspended at the yield of line 176: the line it took
\* last is a "data: " line with a JSON document
at_yield(g) ==
    /\ g.at = "lines" /\ taken(g) > 0
    /\ LET line == iter_lines(g.stm)[taken(g)]
       IN Len(line) > 0 /\ StartsWithData(line) /\ json_loads(Tail(line)).ok

\* the mutant of sse_close: the response is not closed
sse_close_leaks(g) == [g EXCEPT !.at = "done"]

\* generator.close(), by the consumer or when the abandoned generator is
\* finalised: a generator not yet started just ends; one suspended at the
\* yield gets GeneratorExit there, which leaves the with statement of line
\* 168 (closing the response) and is no RequestException
sse_close(g) ==
    IF g.at = "start" THEN [g EXCEPT !.at = "done"]
    ELSE [g EXCEPT !.at = "done", !.conn = "closed"]

\* the generator run to its end by a consumer that takes every event
RECURSIVE drain(_)
drain(g) ==
    IF g.at = "done" THEN g
    ELSE IF g.at = "start" THEN drain(sse_post(g))
    ELSE IF g.todo # <<>> THEN drain(sse_line(g))
    ELSE drain(sse_end(g))

-----------------------------------------------------------------------------
(* Backend responses of the bounded environment *)

Wrapped(key, v) == JObj([k \in {key} |-> v])

ListValues ==
    {JList(q) : q \in SessionLists}
    \cup {Wrapped("sessions", JList(<<SessionEntry("s2")>>)), Wrapped("sessions", None), JStr("x")}
    \cup {JList(<<JNum(5)>>)}

CreateValues ==
    {JStr(i) : i \in Ids}
    \cup {Wrapped("id", JStr(i)) : i \in Ids}
    \cup {Wrapped("session", Wrapped("id", JStr(i))) : i \in Ids}
    \cup {JList(<<Wrapped("id", JStr(i))>>) : i \in Ids}
    \cup {EmptyObj, EmptyList, None, Wrapped("id", JStr(""))}

UserEvent(txt) ==
    JObj([k \in {"author", "content"} |->
            IF k = "author" THEN JStr("user")
            ELSE JObj([j \in {"parts"} |-> JList(<<TextPart(txt)>>)])])

Details == {Wrapped("events", JList(<<UserEvent("hello")>>))}
GetValues == Details \cup {EmptyObj}

DeleteStatuses == {200, 201, 202, 204, 404, 500}

JsonResponses(vals) == {Http(200, JsonBody(v)) : v \in vals}
Failures == {NetError, Http(500, TextBody), Http(200, TextBody)}

ListResponses(a) ==
    IF a = "local" THEN {NetError, Http(200, TextBody)} \cup JsonResponses(ListValues)
    ELSE {SdkRaised} \cup {Sdk(v) : v \in ListValues}

CreateResponses(a) ==
    IF a = "local" THEN Failures \cup {Http(200, EmptyBody)} \cup JsonResponses(CreateValues)
    ELSE {SdkRaised} \cup {Sdk(v) : v \in CreateValues}

DeleteResponses(a) ==
    IF a = "local"
    THEN {NetError, Http(500, TextBody)} \cup {Http(c, EmptyBody) : c \in DeleteStatuses}
    ELSE {SdkRaised, Sdk(None)}

GetResponses(a) ==
    IF a = "local"
    THEN {Http(404, TextBody)} \cup JsonResponses(GetValues)
    ELSE {SdkRaised} \cup {Sdk(v) : v \in GetValues}

DataLine(doc) == <<DataPrefix, doc>>

\* streams a chat turn of the local app can meet
ChatStreams ==
    { Stream("neterr", <<>>, <<>>, "close"),
      Stream("httperr", <<>>, <<>>, "close"),
      Stream("ok", <<>>, <<>>, "close"),
      Stream("ok", <<DataLine(DocA)>>, <<>>, "close"),
      Stream("ok", <<DataLine(DocA), <<>>, DataLine("not-json"), <<>>, DataLine(DocB)>>, <<>>, "close"),
      Stream("ok", <<DataLine(DocA)>>, <<DataLine(DocB)>>, "interrupt"),
      Stream("ok", <<DataLine("not-json")>>, <<>>, "interrupt"),
      Stream("ok", <<DataLine(DocEmptyText)>>, <<>>, "close"),
      Stream("ok", <<DataLine(DocNumber)>>, <<>>, "close") }
NoStream == Stream("none", <<>>, <<>>, "close")

\* remote_app.stream_query(...): the events it yields, then the end or an exception
Query(events, raised) == [events |-> events, raised |-> raised]
ChatQueries ==
    { Query(<<>>, FALSE), Query(<<>>, TRUE),
      Query(<<TextEvent("A")>>, FALSE),
      Query(<<TextEvent("A"), TextEvent("B")>>, FALSE),
      Query(<<TextEvent("A")>>, TRUE),
      Query(<<TextEvent("")>>, FALSE),
      Query(<<JNum(5)>>, FALSE) }
NoQuery == Query(<<>>, FALSE)

-----------------------------------------------------------------------------
(* Collecting the reply texts of a chat turn *)

\* `k in v` raises TypeError when v is no container
InRaises(v) == v.t \in {"num", "null"}

\* `k in v` for a dict (key), a list (element) or a str (substring: no string
\* of the bounded environment contains a key)
InHolds(k, v) ==
    CASE v.t = "obj" -> k \in DOMAIN v.f
      [] v.t = "list" -> \E i \in 1..Len(v.q) : v.q[i] = JStr(k)
      [] OTHER -> FALSE

Collected(responses, crashed) == [responses |-> responses, crashed |-> crashed]
Crashed(acc) == [acc EXCEPT !.crashed = TRUE]

\* app_local.py lines 301-303: for part in event['content']['parts']
RECURSIVE local_parts(_, _, _)
local_parts(parts, i, acc) ==
    IF acc.crashed \/ i > Len(parts) THEN acc
    ELSE LET part == parts[i]
         IN IF InRaises(part) THEN Crashed(acc)
            ELSE IF ~InHolds("text", part) THEN local_parts(parts, i + 1, acc)
            ELSE IF ~IsDict(part) THEN Crashed(acc)
            ELSE local_parts(parts, i + 1,
                             [acc EXCEPT !.responses = Append(@, part.f["text"])])

\* app_local.py line 300 and the loop under it, for one event
local_event(event, acc) ==
    IF ~Truthy(event) THEN acc
    ELSE IF InRaises(event) THEN Crashed(acc)
    ELSE IF ~InHolds("content", event) THEN acc
    ELSE IF ~IsDict(event) THEN Crashed(acc)
    ELSE LET content == event.f["content"]
         IN IF InRaises(content) THEN Crashed(acc)
            ELSE IF ~InHolds("parts", content) THEN acc
            ELSE IF ~IsDict(content) THEN Crashed(acc)
            ELSE LET parts == content.f["parts"]
                 IN IF IsList(parts) THEN local_parts(parts.q, 1, acc)
                    ELSE IF InRaises(parts) THEN Crashed(acc)
                    ELSE IF IsDict(parts) /\ HasKey(parts, "text") THEN Crashed(acc)
                    ELSE acc

\* app_local.py lines 298-303: the events of the stream folded into responses
RECURSIVE local_collect(_, _, _)
local_collect(events, i, acc) ==
    IF acc.crashed \/ i > Len(events) THEN acc
    ELSE local_collect(events, i + 1, local_event(events[i], acc))

\* the characters str.strip() removes, as far as the bounded texts hold them
Whitespace == {" ", "\n"}

RECURSIVE lstrip(_)
lstrip(s) ==
    IF Len(s) > 0 /\ SubSeq(s, 1, 1) \in Whitespace THEN lstrip(Tail(s)) ELSE s

RECURSIVE rstrip(_)
rstrip(s) ==
    IF Len(s) > 0 /\ SubSeq(s, Len(s), Len(s)) \in Whitespace
    THEN rstrip(SubSeq(s, 1, Len(s) - 1))
    ELSE s

\* str.strip()
strip(s) == rstrip(lstrip(s))

\* str(v) of a decoded JSON value that is no string: the digits of a number,
\* the literal None, the brackets of a container (never blank)
str(v) ==
    CASE v.t = "str" -> v.v
      [] v.t = "num" -> ToString(v.n)
      [] v.t = "null" -> "None"
      [] v.t = "list" -> "[]"
      [] OTHER -> "{}"

\* app_agentEngine.py lines 140-144: for part in parts
RECURSIVE engine_parts(_, _, _)
engine_parts(parts, i, acc) ==
    IF i > Len(parts) THEN acc
    ELSE LET part == parts[i]
             keep == /\ IsDict(part) /\ HasKey(part, "text")
                     /\ Truthy(part.f["text"])
                     /\ strip(str(part.f["text"])) # ""
         IN engine_parts(parts, i + 1,
                         IF keep THEN [acc EXCEPT !.responses = Append(@, part.f["text"])]
                         ELSE acc)

\* app_agentEngine.py lines 136-144, for one event; crashed: an exception
\* that the except clause of send_message_to_agent catches
engine_event(event, acc) ==
    IF ~IsDict(event) THEN acc
    ELSE LET content == Get(event, "content", EmptyObj)
         IN IF ~IsDict(content) THEN acc
            ELSE LET parts == Get(content, "parts", EmptyList)
                 IN IF IsList(parts) THEN engine_parts(parts.q, 1, acc)
                    ELSE IF InRaises(parts) THEN Crashed(acc)
                    ELSE acc

RECURSIVE engine_collect(_, _, _)
engine_collect(events, i, acc) ==
    IF acc.crashed \/ i > Len(events) THEN acc
    ELSE engine_collect(events, i + 1, engine_event(events[i], acc))

\* send_message_to_agent(resource_id, user_id, session_id, message)
send_message_to_agent(q) ==
    LET acc == engine_collect(q.events, 1, Collected(<<>>, FALSE))
    IN IF acc.crashed \/ q.raised
       THEN Result(<<>>, <<"error: sending message">>)
       ELSE Result(acc.responses, <<>>)

-----------------------------------------------------------------------------
(* The conversation history rebuilt from the stored event log *)

\* a displayed chat message: the name given to st.chat_message, the text
\* written in it and the position in the log of the event it comes from
Message(role, text, of) == [role |-> role, text |-> text, of |-> of]

\* what display_conversation_history leaves on the page; crashed: an
\* exception left the function
History(shown, info, crashed) == [shown |-> shown, info |-> info, crashed |-> crashed]

TextAcc(text, crashed) == [text |-> text, crashed |-> crashed]

\* lines 196-198 (engine lines 166-168): the text of the parts concatenated;
\* the local app adds part['text'] itself, the engine app str(part['text'])
RECURSIVE text_content(_, _, _, _)
text_content(a, parts, i, acc) ==
    IF acc.crashed \/ i > Len(parts) THEN acc
    ELSE LET part == parts[i]
         IN IF IsDict(part) /\ HasKey(part, "text") /\ part.f["text"] # None
            THEN IF a = "local" /\ ~IsStr(part.f["text"])
                 THEN TextAcc(acc.text, TRUE)
                 ELSE text_content(a, parts, i + 1,
                                   TextAcc(acc.text \o str(part.f["text"]), FALSE))
            ELSE text_content(a, parts, i + 1, acc)

\* `for x in v`: the elements of a list; a str or a dict hands out strings
\* (characters, keys), which no isinstance(x, dict) test lets through
Iterable(v) == v.t \in {"list", "str", "obj"}
Elements(v) == IF IsList(v) THEN v.q ELSE <<>>

\* the mutant of chat_role: every message goes under the assistant's name
chat_role_assistant(role, author) == "assistant"

\* line 200 (engine line 171): `if role == 'user' or author == 'user'`
chat_role(role, author) ==
    IF role = JStr("user") \/ author = JStr("user") THEN "user" ELSE "assistant"

\* the mutant of is_shown: a message for every event with a text part
is_shown_unstripped(text) == text # ""

\* line 199 (engine line 170): `if text_content.strip():`
is_shown(text) == strip(text) # ""

\* lines 189-205 (engine lines 159-177): one event of the log
history_event(a, event, i, h) ==
    IF ~IsDict(event) THEN h
    ELSE LET content == Get(event, "content", EmptyObj)
             author == Get(event, "author", JStr("unknown"))
         IN IF ~IsDict(content) THEN h
            ELSE LET parts == Get(content, "parts", EmptyList)
                     role == Get(content, "role", author)
                 IN IF ~Iterable(parts) THEN [h EXCEPT !.crashed = TRUE]
                    ELSE LET acc == text_content(a, Elements(parts), 1, TextAcc("", FALSE))
                         IN IF acc.crashed THEN [h EXCEPT !.crashed = TRUE]
                            ELSE IF is_shown(acc.text)
                            THEN [h EXCEPT !.shown =
                                     Append(@, Message(chat_role(role, author), acc.text, i))]
                            ELSE h

RECURSIVE history_events(_, _, _, _)
history_events(a, events, i, h) ==
    IF h.crashed \/ i > Len(events) THEN h
    ELSE history_events(a, events, i + 1, history_event(a, events[i], i, h))

\* display_conversation_history(session_details)
display_conversation_history(a, session_details) ==
    IF ~IsDict(session_details) THEN History(<<>>, FALSE, TRUE)
    ELSE LET events == Get(session_details, "events", EmptyList)
         IN IF ~Truthy(events) THEN History(<<>>, TRUE, FALSE)
            ELSE IF ~Iterable(events) THEN History(<<>>, FALSE, TRUE)
            ELSE history_events(a, Elements(events), 1, History(<<>>, FALSE, FALSE))

-----------------------------------------------------------------------------
(* The orchestrator: one pass of main()                                    *)

\* the adapter of the running app, applied to the backend's answer
ListSessions(a, r) == IF a = "local" THEN list_sessions(r) ELSE get_sessions_list(r)
CreateSession(a, r) == IF a = "local" THEN create_session(r) ELSE create_new_session(r)
GetSession(a, r) == IF a = "local" THEN get_session(r) ELSE get_session_details(r)
DeleteSession(a, r) == IF a = "local" THEN delete_session(r) ELSE delete_session_by_id(r)

\* what the user did to start the pass
Click(kind, sid, text) == [kind |-> kind, sid |-> sid, text |-> text]
NoClick == Click("none", None, "")
AutoRun == Click("auto", None, "")

\* a call an adapter issued to the backend; got: it returned a usable value
Call(op, user, sid, got) == [op |-> op, user |-> user, sid |-> sid, got |-> got]

\* the answers the backend gives to the calls of one pass
Env(list, create, delete, get, stream) ==
    [list |-> list, create |-> create, delete |-> delete, get |-> get, stream |-> stream]

\* The running pass: the session_state fields, what it has rendered and
\* logged, and how it ends: "run" (still running / ran to the end), "rerun"
\* (st.rerun()), "crash" (uncaught exception), "stop" (st.stop()).
StartPass ==
    [session_id |-> session_id, sessions |-> sessions, refresh |-> refresh_sessions,
     calls |-> <<>>, msgs |-> <<>>, buttons |-> <<>>, chat |-> FALSE, out |-> "run",
     resp |-> NoResponse, ret |-> None, ok |-> FALSE, responses |-> <<>>, shown |-> <<>>]

Log(m, call, msgs) == [m EXCEPT !.calls = Append(@, call), !.msgs = @ \o msgs]

\* the mutant of on_refreshed: the flag is left set
on_refreshed_keeps_flag(m, lst) == [m EXCEPT !.sessions = lst]

\* lines 249-250: the cache takes the fetched list, the flag is cleared
on_refreshed(m, lst) == [m EXCEPT !.sessions = lst, !.refresh = FALSE]

\* lines 245-250: the refresh button and the re-fetch of the list
refresh_phase(m, a, click, u, env) ==
    LET m1 == IF click.kind = "refresh" THEN [m EXCEPT !.refresh = TRUE] ELSE m
    IN IF m1.refresh
       THEN LET r == ListSessions(a, env.list)
            IN on_refreshed(Log(m1, Call("list", u, None, TRUE), r.msgs), r.ret)
       ELSE m1

\* the mutant of on_created: the new session is not made the active one
on_created_not_active(m, new) ==
    [m EXCEPT !.refresh = TRUE, !.out = "rerun",
              !.msgs = Append(@, "success: created session")]

\* lines 255-258: the new session becomes active, the list is invalidated
on_created(m, new) ==
    [m EXCEPT !.session_id = new, !.refresh = TRUE, !.out = "rerun",
              !.msgs = Append(@, "success: created session")]

\* the mutant of create_phase: a failed creation invalidates the list too
create_phase_invalidates(m, a, click, u, env) ==
    IF click.kind # "create" THEN m
    ELSE LET r == CreateSession(a, env.create)
             m1 == [Log(m, Call("create", u, None, Truthy(r.ret)), r.msgs)
                        EXCEPT !.resp = env.create, !.ret = r.ret]
         IN IF Truthy(r.ret) THEN on_created(m1, r.ret) ELSE [m1 EXCEPT !.refresh = TRUE]

\* lines 252-258: the create button
create_phase(m, a, click, u, env) ==
    IF click.kind # "create" THEN m
    ELSE LET r == CreateSession(a, env.create)
             m1 == [Log(m, Call("create", u, None, Truthy(r.ret)), r.msgs)
                        EXCEPT !.resp = env.create, !.ret = r.ret]
         IN IF Truthy(r.ret) THEN on_created(m1, r.ret) ELSE m1

\* lines 270-271: the clicked session becomes active
on_selected(m, sid) == [m EXCEPT !.session_id = sid, !.out = "rerun"]

\* the mutant of on_deleted: the active session is cleared whichever was deleted
on_deleted_clears_always(m, sid) ==
    [m EXCEPT !.session_id = None, !.refresh = TRUE, !.out = "rerun",
              !.msgs = Append(@, "success: session deleted")]

\* lines 275-279: a deleted active session is cleared, the list is invalidated
on_deleted(m, sid) ==
    [m EXCEPT !.session_id = IF @ = sid THEN None ELSE @,
              !.refresh = TRUE, !.out = "rerun",
              !.msgs = Append(@, "success: session deleted")]

\* lines 262-279: the rows of the session list from row i on
RECURSIVE session_rows(_, _, _, _, _, _)
session_rows(m, i, a, click, u, env) ==
    IF m.out # "run" \/ i > Len(m.sessions.q) THEN m
    ELSE LET session == m.sessions.q[i]
         IN IF ~IsDict(session) THEN [m EXCEPT !.out = "crash"]
            ELSE LET sid == Get(session, "id", SynthId(i - 1))
                 IN IF ~IsStr(sid) THEN [m EXCEPT !.out = "crash"]
                    ELSE LET m1 == [m EXCEPT !.buttons = Append(@, sid)]
                         IN IF click.kind = "select" /\ click.sid = sid
                            THEN on_selected(m1, sid)
                            ELSE IF click.kind = "delete" /\ click.sid = sid
                            THEN LET r == DeleteSession(a, env.delete)
                                     m2 == [Log(m1, Call("delete", u, sid, r.ret), r.msgs)
                                                EXCEPT !.resp = env.delete, !.ok = r.ret]
                                 IN IF r.ret THEN on_deleted(m2, sid)
                                    ELSE session_rows(m2, i + 1, a, click, u, env)
                            ELSE session_rows(m1, i + 1, a, click, u, env)

\* lines 260-281: the session list of the sidebar
list_phase(m, a, click, u, env) ==
    IF m.out # "run" THEN m
    ELSE IF ~Truthy(m.sessions)
    THEN [m EXCEPT !.msgs = Append(@, "info: no sessions found")]
    ELSE IF ~IsList(m.sessions) THEN [m EXCEPT !.out = "crash"]
    ELSE session_rows(m, 1, a, click, u, env)

\* lines 227-281: the sidebar.  The "Test /list-apps" expander (lines 233-243)
\* only prints the raw response and is left out.
sidebar(m, a, click, u, env) ==
    list_phase(create_phase(refresh_phase(m, a, click, u, env), a, click, u, env),
               a, click, u, env)

\* the notices of a drained stream, in the order the reader counts them
RECURSIVE Repeat(_, _)
Repeat(x, n) == IF n = 0 THEN <<>> ELSE <<x>> \o Repeat(x, n - 1)

\* the mutant of local_turn: a turn without a reply drops the active session
local_turn_drops_session(m, u, text, stm) ==
    LET g == drain(agent_run_sse(stm))
        acc == local_collect(g.out, 1, Collected(<<>>, FALSE))
        m1 == Log(m, Call("send", u, m.session_id, g.errors = 0),
                  Repeat("warning: undecodable frame", g.warnings)
                  \o Repeat("error: agent run SSE", g.errors))
    IN IF acc.crashed THEN [m1 EXCEPT !.out = "crash"]
       ELSE [m1 EXCEPT !.responses = acc.responses, !.out = "rerun",
                       !.session_id = IF acc.responses = <<>> THEN None ELSE @,
                       !.msgs = IF acc.responses = <<>>
                                THEN Append(@, "error: no response from the agent")
                                ELSE @]

\* app_local.py lines 292-309: the chat turn over POST /run_sse
local_turn(m, u, text, stm) ==
    LET g == drain(agent_run_sse(stm))
        acc == local_collect(g.out, 1, Collected(<<>>, FALSE))
        m1 == Log(m, Call("send", u, m.session_id, g.errors = 0),
                  Repeat("warning: undecodable frame", g.warnings)
                  \o Repeat("error: agent run SSE", g.errors))
    IN IF acc.crashed THEN [m1 EXCEPT !.out = "crash"]
       ELSE [m1 EXCEPT !.responses = acc.responses, !.out = "rerun",
                       !.msgs = IF acc.responses = <<>>
                                THEN Append(@, "error: no response from the agent")
                                ELSE @]

\* app_agentEngine.py lines 258-275: the chat turn over stream_query
engine_turn(m, u, text, q) ==
    LET r == send_message_to_agent(q)
        m1 == Log(m, Call("send", u, m.session_id, r.msgs = <<>>), r.msgs)
    IN [m1 EXCEPT !.responses = r.ret, !.out = "rerun",
                  !.msgs = IF r.ret = <<>>
                           THEN Append(@, "error: no response from the agent")
                           ELSE @]

\* the mutant of has_active_session: the chat area is entered whatever the state
has_active_session_always(m) == TRUE

\* line 284: `if st.session_state.session_id:`
has_active_session(m) == Truthy(m.session_id)

\* the mutant of details_loaded: the chat input is offered without details
details_loaded_always(details) == TRUE

\* line 287: `if session_details:`
details_loaded(details) == Truthy(details)

\* line 288: the history of the fetched session on the page
history_phase(m, a, details) ==
    LET h == display_conversation_history(a, details)
    IN IF h.crashed THEN [m EXCEPT !.out = "crash"]
       ELSE [m EXCEPT !.shown = h.shown,
                      !.msgs = IF h.info THEN Append(@, "info: no conversation history yet") ELSE @]

\* lines 284-313: the main chat area
chat_phase(m, a, click, u, env) ==
    IF m.out # "run" THEN m
    ELSE IF ~has_active_session(m)
    THEN [m EXCEPT !.msgs = Append(@, "info: select or create a session")]
    ELSE LET r == GetSession(a, env.get)
             m1 == Log(m, Call("get", u, m.session_id, Truthy(r.ret)), r.msgs)
         IN IF ~details_loaded(r.ret)
            THEN [m1 EXCEPT !.msgs = Append(@, "error: could not load session details")]
            ELSE LET m2 == history_phase(m1, a, r.ret)
                     m3 == [m2 EXCEPT !.chat = TRUE]
                 IN IF m2.out = "crash" THEN m2
                    ELSE IF click.kind = "chat" /\ click.text # ""
                    THEN IF a = "local" THEN local_turn(m3, u, click.text, env.stream)
                         ELSE engine_turn(m3, u, click.text, env.stream)
                    ELSE m3

-----------------------------------------------------------------------------
(* State machine of the application *)

NoWidgets == [top |-> FALSE, buttons |-> <<>>, chat |-> FALSE]

PassRecord(kind, click, m) ==
    [kind |-> kind, sid |-> click.sid, before |-> session_id,
     calls |-> m.calls, msgs |-> m.msgs, out |-> m.out,
     resp |-> m.resp, ret |-> m.ret, ok |-> m.ok, responses |-> m.responses,
     shown |-> m.shown]

IdleGen == GenState("done", "none", <<>>, "close", <<>>, 0, 0, FALSE, NoStream)

\* no helper call under observation, no recording backend
NoCalc == [op |-> "none", in |-> None, out |-> None, done |-> TRUE]
NoBackend == <<>>

\* lines 216-224: the defaults of st.session_state, before the first pass
Init ==
    /\ app \in {"local", "engine"}
    /\ session_id = None
    /\ sessions = EmptyList
    /\ refresh_sessions = TRUE
    /\ user_name = "test_user"
    /\ rerun = TRUE
    /\ widgets = NoWidgets
    /\ pass = PassRecord("init", NoClick, StartPass)
    /\ gen = IdleGen
    /\ calc = NoCalc
    /\ backend = NoBackend
    /\ trail = <<>>

\* the session_state and the page after a pass that ended as m
Commit(m, click, u) ==
    /\ session_id' = m.session_id
    /\ sessions' = m.sessions
    /\ refresh_sessions' = m.refresh
    /\ user_name' = u
    /\ rerun' = (m.out = "rerun")
    /\ widgets' = [top |-> TRUE, buttons |-> m.buttons, chat |-> m.chat]
    /\ pass' = PassRecord(click.kind, click, m)
    /\ UNCHANGED <<app, gen, calc>>

Only(need, S, none) == IF need THEN S ELSE {none}

\* lines 284-313 of a pass whose sidebar ended as m: the backend answers the
\* calls of the chat area
RunChat(m, click, u) ==
    \E gr \in Only(m.out = "run" /\ has_active_session(m), GetResponses(app), NoResponse) :
    \E sr \in Only(m.out = "run" /\ has_active_session(m) /\ click.kind = "chat",
                   IF app = "local" THEN ChatStreams ELSE ChatQueries, NoStream) :
        /\ Commit(chat_phase(m, app, click, u,
                              Env(NoResponse, NoResponse, NoResponse, gr, sr)),
                   click, u)
        /\ UNCHANGED <<backend, trail>>

\* main(): one pass started by `click` with `u` in the user name field; the
\* backend answers each call the pass issues
RunPass(click, u) ==
    \E lr \in Only(refresh_sessions \/ click.kind = "refresh", ListResponses(app), NoResponse) :
    \E cr \in Only(click.kind = "create", CreateResponses(app), NoResponse) :
    \E dr \in Only(click.kind = "delete", DeleteResponses(app), NoResponse) :
        RunChat(sidebar(StartPass, app, click, u, Env(lr, cr, dr, NoResponse, NoStream)),
                click, u)

\* the run Streamlit starts by itself: the first one, and after st.rerun()
PassRerun ==
    /\ rerun
    /\ RunPass(AutoRun, user_name)

\* the user edits the user name field (or asks for a rerun with it unchanged)
PassIdle ==
    /\ ~rerun
    /\ \E u \in Only(widgets.top, Users, user_name) : RunPass(NoClick, u)

\* the user clicks "Refresh Sessions"
PassRefresh ==
    /\ ~rerun /\ widgets.top
    /\ RunPass(Click("refresh", None, ""), user_name)

\* the user clicks "Create New Session"
PassCreate ==
    /\ ~rerun /\ widgets.top
    /\ RunPass(Click("create", None, ""), user_name)

\* the user clicks the select button of a listed session
PassSelect ==
    /\ ~rerun
    /\ \E i \in 1..Len(widgets.buttons) :
           RunPass(Click("select", widgets.buttons[i], ""), user_name)

\* the user clicks the delete button of a listed session
PassDelete ==
    /\ ~rerun
    /\ \E i \in 1..Len(widgets.buttons) :
           RunPass(Click("delete", widgets.buttons[i], ""), user_name)

\* the user submits a message in the chat input
PassSend ==
    /\ ~rerun /\ widgets.chat
    /\ \E text \in Texts : RunPass(Click("chat", None, text), user_name)

\* app_agentEngine.py lines 190-191: initialize_vertex_ai() fails, st.stop()
PassStopped ==
    /\ app = "engine"
    /\ rerun' = FALSE
    /\ widgets' = NoWidgets
    /\ pass' = PassRecord("stopped", NoClick,
                          [StartPass EXCEPT !.out = "stop",
                                            !.msgs = <<"error: Vertex AI initialisation">>])
    /\ UNCHANGED <<app, session_id, sessions, refresh_sessions, user_name, gen, calc, backend,
                 trail>>

Next ==
    \/ PassRerun
    \/ PassIdle
    \/ PassRefresh
    \/ PassCreate
    \/ PassSelect
    \/ PassDelete
    \/ PassSend
    \/ PassStopped

Spec == Init /\ [][Next]_vars

-----------------------------------------------------------------------------
(* The SSE reader on its own: a consumer that takes the events one by one *)

NoPartial == <<>>
Partials == {NoPartial, <<DataLine(DocA)>>, <<<<DataPrefix, "{\"content\":">>>>}

SseStreams ==
    { Stream("neterr", <<>>, <<>>, "close"), Stream("httperr", <<>>, <<>>, "close") }
    \cup { Stream("ok", ls, pt, e) :
             ls \in SeqsUpTo(Lines, MaxLines), pt \in Partials, e \in {"close", "interrupt"} }

InitSSE ==
    /\ app = "local"
    /\ session_id = None
    /\ sessions = EmptyList
    /\ refresh_sessions = TRUE
    /\ user_name = "test_user"
    /\ rerun = TRUE
    /\ widgets = NoWidgets
    /\ pass = PassRecord("init", NoClick, StartPass)
    /\ \E stm \in SseStreams : gen = agent_run_sse(stm)
    /\ calc = NoCalc
    /\ backend = NoBackend
    /\ trail = <<>>

Frame ==
    UNCHANGED <<app, session_id, sessions, refresh_sessions, user_name, rerun, widgets, pass,
                calc, backend, trail>>

\* the first next(): the request is posted
SsePost == gen.at = "start" /\ gen' = sse_post(gen) /\ Frame

\* the reader takes the next line
SseLine == gen.at = "lines" /\ gen.todo # <<>> /\ gen' = sse_line(gen) /\ Frame

\* the body ends, or the read raises
SseEnd == gen.at = "lines" /\ gen.todo = <<>> /\ gen' = sse_end(gen) /\ Frame

NextSSE == SsePost \/ SseLine \/ SseEnd

SpecSSE == InitSSE /\ [][NextSSE]_vars

\* the consumer stops iterating: before the first event, or after one
SseAbandon == (gen.at = "start" \/ at_yield(gen)) /\ gen' = sse_close(gen) /\ Frame

NextCancel == SsePost \/ SseLine \/ SseEnd \/ SseAbandon

\* the SSE reader under a consumer that may stop at any event
SpecCancel == InitSSE /\ [][NextCancel]_vars

-----------------------------------------------------------------------------
(* _format_timestamp.  A numeric timestamp is counted in units of 10^7, so  *)
(* that epoch microseconds of today (1.7 * 10^15) fit the integers of the   *)
(* checker; the numbers below are the source's in that unit.                *)

\* 1e12 of line 32
MsThreshold == 100000
\* the last second datetime.fromtimestamp converts (31/12/9999, about
\* 2.534 * 10^11 s); beyond it the call raises
MaxEpoch == 25340

\* the strings datetime.fromisoformat accepts, with the time they denote
IsoTimes == ("2024-05-01T10:00:00+00:00" :> 171) @@ ("2024-05-01T10:00:00" :> 171)

\* ts.replace("Z", "+00:00")
RECURSIVE replace_z(_)
replace_z(s) ==
    IF Len(s) = 0 THEN s
    ELSE (IF SubSeq(s, 1, 1) = "Z" THEN "+00:00" ELSE SubSeq(s, 1, 1)) \o replace_z(Tail(s))

\* what _format_timestamp returns: the '%d/%m %H:%M' text of a time, or the sentinel
Formatted(time) == [text |-> "date", time |-> time]
Sentinel(a) == [text |-> IF a = "local" THEN "Unknown" ELSE "Sconosciuto", time |-> 0]

\* the mutant of to_seconds: every number is taken for milliseconds
to_seconds_always(n) == n \div 1000

\* lines 32-33: `if ts > 1e12: ts = ts / 1000.0`
to_seconds(n) == IF n > MsThreshold THEN n \div 1000 ELSE n

\* _format_timestamp(ts) of application a
format_timestamp(a, ts) ==
    IF ts.t = "num"
    THEN IF to_seconds(ts.n) > MaxEpoch THEN Sentinel(a)
         ELSE Formatted(to_seconds(ts.n))
    ELSE IF ts.t = "str"
    THEN IF replace_z(ts.v) \in DOMAIN IsoTimes THEN Formatted(IsoTimes[replace_z(ts.v)])
         ELSE Sentinel(a)
    ELSE Sentinel(a)

-----------------------------------------------------------------------------
(* The helper functions on their own: one call, both applications' versions *)

\* author and declared role of the events of the bounded logs
AuthorRoles ==
    { <<JStr("user"), Absent>>, <<JStr("agent"), Absent>>, <<Absent, Absent>>,
      <<JStr("agent"), JStr("model")>>, <<JStr("user"), JStr("model")>>,
      <<JStr("agent"), JStr("user")>> }

PartLists ==
    { <<TextPart("hi")>>,
      <<TextPart("")>>,
      <<TextPart(" "), NullTextPart>>,
      <<NoTextPart, TextPart("hi"), TextPart(" there")>>,
      <<NoTextPart>> }

HistoryEvents ==
    { Event(ar[1], ar[2], ps) : ar \in AuthorRoles, ps \in PartLists }
    \cup { JStr("event"), Wrapped("content", None) }

\* logs whose parts carry a string, null or no text
TypedLogs ==
    { Wrapped("events", JList(q)) : q \in SeqsUpTo(HistoryEvents, MaxEvents) }
    \cup { EmptyObj, Wrapped("events", None) }

\* logs outside the data model: a numeric text, parts that are null, a
\* number where the list of events should be
IllTypedLogs ==
    { Wrapped("events", JList(<<Event(JStr("agent"), Absent, <<JObj([k \in {"text"} |-> JNum(7)])>>)>>)),
      Wrapped("events", JList(<<Wrapped("content", Wrapped("parts", None))>>)),
      Wrapped("events", JNum(7)) }

Calc(op, in) == [op |-> op, in |-> in, out |-> None, done |-> FALSE]
Both(local, engine) == [local |-> local, engine |-> engine]

DisplayCalls == { Calc("display", d) : d \in TypedLogs \cup IllTypedLogs }

FrameFn ==
    UNCHANGED <<app, session_id, sessions, refresh_sessions, user_name, rerun, widgets, pass,
                gen, backend, trail>>

Returns(op, out) ==
    /\ calc.op = op /\ ~calc.done
    /\ calc' = [calc EXCEPT !.out = out, !.done = TRUE]
    /\ FrameFn

\* display_conversation_history(session_details) of either application
CalcDisplay ==
    Returns("display", Both(display_conversation_history("local", calc.in),
                            display_conversation_history("engine", calc.in)))

\* the arguments of _parse_json_or_empty
DecodeArgs(response, on_empty) == [response |-> response, on_empty |-> on_empty]

DecodedValues == {EmptyObj, EmptyList, None, JStr("x"), SessionEntry("s1")}
DecodeBodies == {EmptyBody, BlankBody, TextBody} \cup {JsonBody(v) : v \in DecodedValues}

DecodeCalls ==
    { Calc("decode", DecodeArgs(Http(c, b), dflt)) :
        c \in {200, 204}, b \in DecodeBodies, dflt \in {None, EmptyList} }

\* _parse_json_or_empty(response, on_empty)
CalcDecode ==
    Returns("decode", parse_json_or_empty(calc.in.response, calc.in.on_empty))

\* numeric timestamps: seconds, milliseconds, microseconds and beyond; those
\* above the threshold are multiples of 1000 (of 10^6 above 10^8), so that
\* the divisions are exact
Epochs ==
    {0, 171, 25340, 25341, 30000, 100000, 171000, 200000, 25340000, 25341000,
     99999000, 100000000, 171000000, 200000000}

Timestamps ==
    {JNum(n) : n \in Epochs}
    \cup {JStr("2024-05-01T10:00:00Z"), JStr("2024-05-01T10:00:00"), JStr("yesterday"), JStr(""),
          None, EmptyObj}

FormatCalls == { Calc("format", ts) : ts \in Timestamps }

\* _format_timestamp(ts) of either application
CalcFormat ==
    Returns("format", Both(format_timestamp("local", calc.in), format_timestamp("engine", calc.in)))

\* bodies of a successful answer to the listing of the sessions
ListShapes ==
    { Wrapped("sessions", JList(<<SessionEntry("s1")>>)), Wrapped("sessions", EmptyList),
      Wrapped("sessions", None), Wrapped("sessions", JStr("x")),
      JList(<<SessionEntry("s1"), SessionEntry("s2")>>), EmptyList,
      EmptyObj, Wrapped("items", JList(<<SessionEntry("s1")>>)),
      JStr("x"), JNum(5), None }

ListCalls == { Calc("list", b) : b \in {EmptyBody, BlankBody} \cup {JsonBody(v) : v \in ListShapes} }
CreateCalls == { Calc("create", JsonBody(v)) : v \in CreateValues }

\* list_sessions on the 200 response with the body, get_sessions_list on the
\* SDK returning the body's value
CalcList ==
    Returns("list", Both(list_sessions(Http(200, calc.in)).ret,
                         get_sessions_list(Sdk(calc.in.val)).ret))

\* create_session on the 200 response with the body, create_new_session on
\* the SDK returning the body's value
CalcCreate ==
    Returns("create", Both(create_session(Http(200, calc.in)).ret,
                           create_new_session(Sdk(calc.in.val)).ret))

Calls == DisplayCalls \cup DecodeCalls \cup FormatCalls \cup ListCalls \cup CreateCalls

InitFn ==
    /\ app = "local"
    /\ session_id = None
    /\ sessions = EmptyList
    /\ refresh_sessions = TRUE
    /\ user_name = "test_user"
    /\ rerun = TRUE
    /\ widgets = NoWidgets
    /\ pass = PassRecord("init", NoClick, StartPass)
    /\ gen = IdleGen
    /\ calc \in Calls
    /\ backend = NoBackend
    /\ trail = <<>>

NextFn ==
    \/ CalcDisplay
    \/ CalcDecode
    \/ CalcFormat
    \/ CalcList
    \/ CalcCreate

SpecFn == InitFn /\ [][NextFn]_vars

-----------------------------------------------------------------------------
(* The application against a backend that records what it is told *)

\* one exchange of a session: what the user said, what the agent answered
Turn(said, reply) == [said |-> said, reply |-> reply]

\* the order in which the backend assigns and lists identifiers
IdOrder == <<"s1", "s2">>
Stored == DOMAIN backend
FreshIds == {i \in 1..Len(IdOrder) : IdOrder[i] \notin Stored}
FreshId == IdOrder[CHOOSE i \in FreshIds : \A j \in FreshIds : i <= j]

RECURSIVE Listing(_, _)
Listing(store, i) ==
    IF i > Len(IdOrder) THEN <<>>
    ELSE (IF IdOrder[i] \in DOMAIN store THEN <<SessionEntry(IdOrder[i])>> ELSE <<>>)
         \o Listing(store, i + 1)

RECURSIVE LogEvents(_)
LogEvents(log) ==
    IF log = <<>> THEN <<>>
    ELSE <<UserTurn(Head(log).said), AgentTurn(Head(log).reply)>> \o LogEvents(Tail(log))

Answer(a, v) == IF a = "local" THEN Http(200, JsonBody(v)) ELSE Sdk(v)

\* GET .../sessions, remote_app.list_sessions
backend_list(a, store) ==
    IF a = "local" THEN Answer(a, JList(Listing(store, 1)))
    ELSE Answer(a, Wrapped("sessions", JList(Listing(store, 1))))

\* POST .../sessions, remote_app.create_session
backend_create(a, i) == Answer(a, SessionEntry(i))

\* GET .../sessions/{id}, remote_app.get_session
backend_get(a, store, sid) ==
    IF IsStr(sid) /\ sid.v \in DOMAIN store
    THEN Answer(a, JObj(("id" :> sid) @@ ("events" :> JList(LogEvents(store[sid.v])))))
    ELSE IF a = "local" THEN Http(404, TextBody) ELSE SdkRaised

\* DELETE .../sessions/{id}, remote_app.delete_session
backend_delete(a) == IF a = "local" THEN Http(204, EmptyBody) ELSE Sdk(None)

\* POST /run_sse, remote_app.stream_query: the agent's reply as one event
backend_stream(a, reply) ==
    IF a = "local" THEN Stream("ok", <<DataLine(ReplyDoc(reply)), <<>>>>, <<>>, "close")
    ELSE Query(<<AgentTurn(reply)>>, FALSE)

Did(m, op) == \E i \in 1..Len(m.calls) : m.calls[i].op = op

\* the backend's answers to the calls of the sidebar
trip_sidebar_env(click) ==
    Env(backend_list(app, backend),
        IF click.kind = "create" THEN backend_create(app, FreshId) ELSE NoResponse,
        IF click.kind = "delete" THEN backend_delete(app) ELSE NoResponse,
        NoResponse, NoStream)

\* the store after the sidebar's calls
trip_store(m, click) ==
    IF Did(m, "create") THEN backend @@ (FreshId :> <<>>)
    ELSE IF Did(m, "delete") THEN [i \in Stored \ {click.sid.v} |-> backend[i]]
    ELSE backend

\* the backend's answers to the calls of the chat area
trip_chat_env(m, store, click, reply) ==
    LET reads == m.out = "run" /\ has_active_session(m)
    IN Env(NoResponse, NoResponse, NoResponse,
           IF reads THEN backend_get(app, store, m.session_id) ELSE NoResponse,
           IF reads /\ click.kind = "chat" THEN backend_stream(app, reply) ELSE NoStream)

\* the store after the chat turn, if there was one
trip_record(m, store, click, reply) ==
    IF Did(m, "send") /\ m.session_id.v \in DOMAIN store
    THEN [store EXCEPT ![m.session_id.v] = Append(@, Turn(click.text, reply))]
    ELSE store

TripEnd(m, store, click, reply) ==
    /\ Commit(m, click, user_name)
    /\ backend' = trip_record(m, store, click, reply)
    /\ trail' = IF click.kind = "auto" THEN trail ELSE Append(trail, click.kind)

TripChat(m, store, click, reply) ==
    TripEnd(chat_phase(m, app, click, user_name, trip_chat_env(m, store, click, reply)),
            store, click, reply)

TripSidebar(m, click) ==
    \E reply \in Only(click.kind = "chat", Replies, "") :
        TripChat(m, trip_store(m, click), click, reply)

\* main() against the recording backend
TripPass(click) ==
    TripSidebar(sidebar(StartPass, app, click, user_name, trip_sidebar_env(click)), click)

UserActs == ~rerun /\ Len(trail) < MaxTrail

TripRerun == rerun /\ TripPass(AutoRun)

TripCreate == UserActs /\ widgets.top /\ FreshIds # {} /\ TripPass(Click("create", None, ""))

TripSelect ==
    /\ UserActs
    /\ \E i \in 1..Len(widgets.buttons) : TripPass(Click("select", widgets.buttons[i], ""))

TripDelete ==
    /\ UserActs
    /\ \E i \in 1..Len(widgets.buttons) : TripPass(Click("delete", widgets.buttons[i], ""))

TripSend ==
    /\ UserActs /\ widgets.chat
    /\ \E text \in Texts : TripPass(Click("chat", None, text))

NextTrip ==
    \/ TripRerun
    \/ TripCreate
    \/ TripSelect
    \/ TripDelete
    \/ TripSend

SpecTrip == Init /\ [][NextTrip]_vars

-----------------------------------------------------------------------------
(* Properties of the orchestrator (Spec) *)

CallsOf(op) == {i \in 1..Len(pass.calls) : pass.calls[i].op = op}
Said(msg) == \E i \in 1..Len(pass.msgs) : pass.msgs[i] = msg

\* an identifier: a non-empty string
IsId(v) == IsStr(v) /\ v.v # ""

\* C1: after a create pass whose createSession call returned an id the active
\* session is that id, and after a select pass the active session is the id
\* of the clicked row, whatever session was active before.
C1_CreateAndSelectActivate ==
    /\ (pass.kind = "create" /\ IsId(pass.ret)) => session_id = pass.ret
    /\ pass.kind = "select" => session_id = pass.sid

\* a create pass that replaced another active session by the new one
C1_Witness ==
    /\ pass.kind = "create" /\ IsId(pass.ret)
    /\ pass.before # None /\ pass.before # pass.ret
    /\ session_id = pass.ret

\* C2: after a delete the adapter reports successful, no session is active
\* if the deleted one was active, and the active session is the one it was
\* otherwise.
C2_DeleteClearsOnlyActive ==
    (pass.kind = "delete" /\ pass.ok) =>
        session_id = IF pass.before = pass.sid THEN None ELSE pass.before

\* a successful delete of another session than the active one
C2_Witness ==
    /\ pass.kind = "delete" /\ pass.ok
    /\ pass.before # None /\ pass.before # pass.sid
    /\ session_id = pass.before

\* C3: a pass that starts with no active session issues no send, and every
\* send carries the session id that is active before and after it.
C3_SendOnlyWithActiveSession ==
    \A i \in CallsOf("send") :
        /\ pass.before # None
        /\ pass.calls[i].sid = pass.before
        /\ pass.calls[i].sid = session_id
        /\ IsId(session_id)

\* a send was issued
C3_Witness == CallsOf("send") # {} /\ IsId(session_id)

\* C4: every send follows, in its pass, a getSession call for the active id
\* that returned details; a pass whose getSession returned nothing issues no
\* send, reports the error and leaves the active session id as it was.
C4_DetailsBeforeSend ==
    /\ \A j \in CallsOf("send") :
           \E i \in CallsOf("get") :
               i < j /\ pass.calls[i].got /\ pass.calls[i].sid = pass.calls[j].sid
    /\ \A i \in CallsOf("get") :
           /\ pass.calls[i].sid = session_id
           /\ ~pass.calls[i].got =>
                  /\ CallsOf("send") = {}
                  /\ Said("error: could not load session details")
                  /\ session_id = pass.before
                  /\ ~widgets.chat

\* a pass with an active session whose details could not be fetched
C4_Witness ==
    /\ IsId(session_id)
    /\ \E i \in CallsOf("get") : ~pass.calls[i].got
    /\ Said("error: could not load session details")

Mutated == \/ pass.kind = "create" /\ Truthy(pass.ret)
           \/ pass.kind = "delete" /\ pass.ok

\* C5: a successful create or delete sets the refresh flag and asks for a
\* rerun; a pass that starts with the flag set (and renders) fetches the list
\* before anything else; the cached list changes only in a pass that fetched
\* it, which had the flag set or the refresh button clicked; and the fetch
\* clears the flag.
C5_CacheInvalidation ==
    [][ /\ Mutated' => (refresh_sessions' /\ rerun')
        /\ (refresh_sessions /\ pass'.out # "stop") =>
               (CallsOf("list")' # {} /\ pass'.calls[1].op = "list")
        /\ sessions' # sessions =>
               /\ CallsOf("list")' # {}
               /\ refresh_sessions \/ pass'.kind = "refresh"
        /\ CallsOf("list")' # {} => ~refresh_sessions'
        /\ CallsOf("list")' = {} => (refresh_sessions' = refresh_sessions \/ Mutated')
      ]_vars

\* the automatic pass after a mutation: the list was fetched and is not empty
C5_Witness ==
    /\ pass.kind = "auto" /\ CallsOf("list") # {}
    /\ IsId(session_id) /\ Truthy(sessions) /\ ~refresh_sessions

\* bodies of a successful creation response in one of the tolerated shapes
HasIdIn(v) == IsDict(v) /\ HasKey(v, "id")
Tolerated(v) ==
    \/ IsStr(v)
    \/ HasIdIn(v)
    \/ IsDict(v) /\ HasKey(v, "session") /\ HasIdIn(v.f["session"])
    \/ IsList(v) /\ Len(v.q) > 0 /\ HasIdIn(v.q[1])

\* the id such a body carries
IdIn(v) ==
    IF IsStr(v) THEN v
    ELSE IF HasIdIn(v) THEN v.f["id"]
    ELSE IF IsDict(v) THEN v.f["session"].f["id"]
    ELSE v.q[1].f["id"]

\* the create pass got a successful response, and the value it carried
Created ==
    /\ pass.kind = "create"
    /\ IF app = "local"
       THEN pass.resp.net /\ pass.resp.status \in 200..299 /\ pass.resp.body.kind = "json"
       ELSE ~pass.resp.raised
CreatedValue == IF app = "local" THEN pass.resp.body.val ELSE pass.resp.val

\* C8: for a successful creation response in any tolerated shape (bare id
\* string, {id}, {session: {id}}, non-empty list whose first element has an
\* id) createSession returns the session id.
C8_CreateExtractsId ==
    (Created /\ Tolerated(CreatedValue)) => pass.ret = IdIn(CreatedValue)

\* C9: when a successful creation response (local app) matches none of the
\* tolerated shapes, createSession yields no id and signals the "no id"
\* warning, and the active session is not changed.
C9_ShapeMismatchWarns ==
    (app = "local" /\ Created /\ ~Tolerated(CreatedValue)) =>
        /\ pass.ret = None
        /\ Said("warning: no id in creation response")
        /\ session_id = pass.before

\* C10: deleteSession (local app) returns true exactly when the HTTP status
\* is 200, 202 or 204, and false for every other status.
C10_DeleteStatusCodes ==
    (app = "local" /\ pass.kind = "delete" /\ pass.resp.net) =>
        (pass.ok <=> pass.resp.status \in {200, 202, 204})

\* C15: whatever the backend answers to create, list, get, delete or send,
\* no exception leaves the pass that made the call.
C15_NoFaultEscapes == pass.out # "crash"

IsBlank(v) == ~IsStr(v) \/ strip(v.v) = ""

\* C18: every message a pass displays, from the stored log or from the
\* events streamed in a chat turn, has a text that is not blank.
C18_NoBlankMessage ==
    /\ \A k \in 1..Len(pass.shown) : strip(pass.shown[k].text) # ""
    /\ \A k \in 1..Len(pass.responses) : ~IsBlank(pass.responses[k])

\* C21: a pass in which the entered user id differs from the one of the
\* pass before fetches the session list again and ends with no active
\* session.
C21_CacheOfCurrentUser ==
    [][user_name' # user_name => (CallsOf("list")' # {} /\ session_id' = None)]_vars

\* C22: the active session id is absent or one of the identifiers the
\* backend supplies (Ids), never one the session list display made up.
C22_ActiveIdFromBackend ==
    session_id = None \/ (IsStr(session_id) /\ session_id.v \in Ids)

FailedCreate == pass.kind = "create" /\ ~Truthy(pass.ret)
FailedDelete == pass.kind = "delete" /\ CallsOf("delete") # {} /\ ~pass.ok

\* C23: a pass whose createSession gave no id, or whose deleteSession
\* returned false, leaves the active session id, the cached list and the
\* refresh flag as they were and asks for no rerun.
C23_FailedMutationFrame ==
    [][(FailedCreate' \/ FailedDelete') =>
           /\ UNCHANGED <<session_id, sessions, refresh_sessions>>
           /\ ~rerun' /\ pass'.out # "rerun"]_vars

\* a delete the backend refused, with the session still active
C23_Witness ==
    /\ FailedDelete /\ IsId(session_id) /\ pass.sid = session_id
    /\ Truthy(sessions) /\ ~refresh_sessions /\ ~rerun

Sent == pass.kind = "chat" /\ CallsOf("send") # {}

\* C24: a pass that sends a message leaves the active session id, the
\* cached list and the refresh flag as they were, whatever the stream does;
\* the pass that follows its rerun fetches the details of the same session.
C24_SendFrame ==
    [][ /\ Sent' => UNCHANGED <<session_id, sessions, refresh_sessions>>
        /\ (Sent /\ rerun /\ pass'.out # "stop") =>
               /\ session_id' = session_id
               /\ \E i \in CallsOf("get")' : pass'.calls[i].sid = session_id
      ]_vars

\* a chat turn whose stream failed, the session still active
C24_Witness ==
    /\ Sent /\ ~pass.calls[Len(pass.calls)].got /\ pass.responses = <<>>
    /\ IsId(session_id) /\ session_id = pass.before /\ rerun

-----------------------------------------------------------------------------
(* Properties of the SSE reader (SpecSSE, SpecCancel) *)

\* a payload candidate: the line starts with "data: "
IsFrame(line) == Len(line) >= 1 /\ Head(line) = "data: "
\* its remainder is a JSON document
IsEventFrame(line) == IsFrame(line) /\ Len(line) = 2 /\ line[2] \in {DocA, DocB}
EventOf(line) == IF line[2] = DocA THEN TextEvent("A") ELSE TextEvent("B")

RECURSIVE EventsOf(_)
EventsOf(lines) ==
    IF lines = <<>> THEN <<>>
    ELSE (IF IsEventFrame(Head(lines)) THEN <<EventOf(Head(lines))>> ELSE <<>>)
         \o EventsOf(Tail(lines))

RECURSIVE BadFrames(_)
BadFrames(lines) ==
    IF lines = <<>> THEN 0
    ELSE (IF IsFrame(Head(lines)) /\ ~IsEventFrame(Head(lines)) THEN 1 ELSE 0)
         + BadFrames(Tail(lines))

\* the lines the reader has received so far
Received == SubSeq(iter_lines(gen.stm), 1, Len(iter_lines(gen.stm)) - Len(gen.todo))

C19_ConnectionRelease ==
    /\ [](gen.at = "done" => gen.conn # "open")
    /\ [][gen.at = "done" => gen'.out = gen.out]_vars

\* a consumer stopped after an event, with lines of the stream still unread
C19_Witness ==
    /\ gen.at = "done" /\ gen.conn = "closed"
    /\ gen.out # <<>> /\ gen.todo # <<>>

-----------------------------------------------------------------------------
(* Properties of the helper functions (SpecFn) *)

Displayed(a) == calc.out[a].shown
LogOf(details) == Elements(Get(details, "events", EmptyList))

\* the parts of an event of the data model, and the text they add up to
PartsOf(event) ==
    IF IsDict(event) /\ HasKey(event, "content") /\ IsDict(event.f["content"])
       /\ HasKey(event.f["content"], "parts") /\ IsList(event.f["content"].f["parts"])
    THEN event.f["content"].f["parts"].q
    ELSE <<>>

PartText(part) ==
    IF IsDict(part) /\ HasKey(part, "text") /\ IsStr(part.f["text"]) THEN part.f["text"].v ELSE ""

RECURSIVE Concat(_)
Concat(parts) == IF parts = <<>> THEN "" ELSE PartText(Head(parts)) \o Concat(Tail(parts))

EventText(event) == Concat(PartsOf(event))
Produces(event) == strip(EventText(event)) # ""

MessagesOf(a, i) == {k \in 1..Len(Displayed(a)) : Displayed(a)[k].of = i}

\* C11: for every log of typed events each application displays, in the
\* order of the events, exactly one message for every event whose text parts
\* add up to a text that is not blank, with that text, and no message for any
\* other event.
C11_HistoryReconstruction ==
    (calc.op = "display" /\ calc.done /\ calc.in \in TypedLogs) =>
        \A a \in {"local", "engine"} :
            /\ ~calc.out[a].crashed
            /\ \A i \in 1..Len(LogOf(calc.in)) :
                   IF Produces(LogOf(calc.in)[i])
                   THEN /\ Cardinality(MessagesOf(a, i)) = 1
                        /\ \A k \in MessagesOf(a, i) :
                               Displayed(a)[k].text = EventText(LogOf(calc.in)[i])
                   ELSE MessagesOf(a, i) = {}
            /\ \A k \in 1..Len(Displayed(a)) : Displayed(a)[k].of \in 1..Len(LogOf(calc.in))
            /\ \A k, l \in 1..Len(Displayed(a)) : k < l => Displayed(a)[k].of < Displayed(a)[l].of

\* the log of a user event "hi" and an agent event with the text "" is
\* displayed as the one message "hi"
C11_Witness ==
    /\ calc.op = "display" /\ calc.done
    /\ LogOf(calc.in) = <<Event(JStr("user"), Absent, <<TextPart("hi")>>),
                           Event(JStr("agent"), Absent, <<TextPart("")>>)>>
    /\ \A a \in {"local", "engine"} : Displayed(a) = <<Message("user", "hi", 1)>>

\* the role of the data model: the declared role, else the author, else "unknown"
ResolvedRole(event) ==
    LET content == event.f["content"]
    IN IF HasKey(content, "role") THEN content.f["role"]
       ELSE IF HasKey(event, "author") THEN event.f["author"]
       ELSE JStr("unknown")

\* C12: every displayed message is shown as the user's exactly when the role
\* resolved for its event (declared role, else author, else "unknown") is
\* "user"; the author does not count when the content declares a role.
C12_RoleResolution ==
    (calc.op = "display" /\ calc.done /\ calc.in \in TypedLogs) =>
        \A a \in {"local", "engine"} : \A k \in 1..Len(Displayed(a)) :
            (Displayed(a)[k].role = "user")
                <=> (ResolvedRole(LogOf(calc.in)[Displayed(a)[k].of]) = JStr("user"))

\* C14: the decoder returns the default its caller passed (an empty list or
\* None), with no diagnostic, when the status is 204 or the body is empty or
\* blank; the same default with a diagnostic when the body is no JSON; the
\* parsed value, with no diagnostic, otherwise.
C14_DecoderDefault ==
    (calc.op = "decode" /\ calc.done) =>
        LET response == calc.in.response
        IN IF response.status = 204 \/ response.body.kind \in {"empty", "blank"}
           THEN calc.out = Result(calc.in.on_empty, <<>>)
           ELSE IF response.body.kind = "json"
           THEN calc.out = Result(response.body.val, <<>>)
           ELSE /\ calc.out.ret = calc.in.on_empty
                /\ calc.out.msgs = <<"error: non-JSON response">>

\* a numeric timestamp above 10^12
IsMillis(ts) == ts.t = "num" /\ ts.n > MsThreshold

SameAsSeconds ==
    \A a \in {"local", "engine"} : calc.out[a] = format_timestamp(a, JNum(calc.in.n \div 1000))

\* C16 as claimed: for every numeric timestamp t above 10^12 the display of
\* t is the display of t/1000.
C16_MillisecondsAnyMagnitude ==
    (calc.op = "format" /\ calc.done /\ IsMillis(calc.in)) => SameAsSeconds

\* C16: for every numeric timestamp t above 10^12 and not above 10^15 the
\* display of t is the display of t/1000 (the same date, or the sentinel for
\* both).
C16_MillisecondsHeuristic ==
    (calc.op = "format" /\ calc.done /\ IsMillis(calc.in) /\ calc.in.n <= 1000 * MsThreshold)
        => SameAsSeconds

\* epoch milliseconds of today are displayed as the date of the seconds
C16_Witness ==
    /\ calc.op = "format" /\ calc.done /\ calc.in = JNum(171000)
    /\ \A a \in {"local", "engine"} : calc.out[a] = Formatted(171)

\* the session sequence the data model reads in a body
SessionsIn(body) ==
    IF body.kind # "json" THEN EmptyList
    ELSE IF IsDict(body.val) /\ HasKey(body.val, "sessions") /\ IsList(body.val.f["sessions"])
    THEN body.val.f["sessions"]
    ELSE IF IsList(body.val) THEN body.val
    ELSE EmptyList

\* C17: for a successful response either adapter returns the list under
\* `sessions`, or the body that is a bare list, or the empty list for any
\* other body; never anything that is not a list.
C17_ListShapeTolerance ==
    (calc.op = "list" /\ calc.done) =>
        \A a \in {"local", "engine"} : calc.out[a] = SessionsIn(calc.in)

\* C20: on the same decoded response value the two adapters return the same
\* result, from createSession and from listSessions.
C20_AdapterEquivalence ==
    (calc.op \in {"list", "create"} /\ calc.done) => calc.out["local"] = calc.out["engine"]

-----------------------------------------------------------------------------
(* Properties of the application with the recording backend (SpecTrip) *)

RECURSIVE Transcript(_)
Transcript(log) ==
    IF log = <<>> THEN <<>>
    ELSE <<<<"user", Head(log).said>>, <<"assistant", Head(log).reply>>>>
         \o Transcript(Tail(log))

ShownTexts == [k \in 1..Len(pass.shown) |-> <<pass.shown[k].role, pass.shown[k].text>>]

\* C13: in the pass that follows a chat turn (and in every automatic pass
\* with an active session of the backend) the displayed history is exactly
\* the recorded turns of that session, the user's text then the agent's
\* reply, in order: after create, select, send "hello" with the reply
\* "hi there" it is [user "hello", assistant "hi there"].
C13_RoundTrip ==
    (pass.kind = "auto" /\ IsStr(session_id) /\ session_id.v \in Stored) =>
        /\ pass.out = "run"
        /\ ShownTexts = Transcript(backend[session_id.v])

\* the round trip of the scenario has been made
C13_Witness ==
    /\ trail = <<"create", "select", "chat">>
    /\ pass.kind = "auto" /\ session_id = JStr("s1") /\ Stored = {"s1"}
    /\ backend["s1"] = <<Turn("hello", "hi there")>>
    /\ ShownTexts = <<<<"user", "hello">>, <<"assistant", "hi there">>>>

=============================================================================
